---------------------------- MODULE Spec2Model ----------------------------
(***************************************************************************)
(* A model of the CalendarWeek week pager (components/Calendar/            *)
(* CalendarWeek.tsx): a horizontally paged strip of 2K+1 weeks around an   *)
(* anchor week, re-anchored when the scroll settles near an edge of the    *)
(* buffer or when the selected date moves to another week.                 *)
(*                                                                         *)
(* A Date is an integer number of ticks since local midnight of Sunday     *)
(* 2023-12-31; a day has TicksPerDay ticks, so a Date that is not a        *)
(* multiple of TicksPerDay carries a time of day.  Widths and scroll       *)
(* offsets are integers in an arbitrary length unit.                       *)
(***************************************************************************)
EXTENDS Integers, Sequences, FiniteSets

\* ------------------------------------------------------------------------
\* Bounds of the model
\* ------------------------------------------------------------------------

\* Resolution of a Date: ticks per calendar day (tick 0 of a day = midnight).
TicksPerDay == 2

\* How many weeks beyond the selectable weeks the anchor may travel by swipes.
MaxWeeksAway == 1

\* How many deferred callbacks (setTimeout) may be pending at once.
MaxTimers == 2

\* ------------------------------------------------------------------------
\* Program constants
\* ------------------------------------------------------------------------

WEEKS_BUFFER == 5

TOTAL_WEEKS == WEEKS_BUFFER * 2 + 1

CENTER_INDEX == WEEKS_BUFFER

\* Dimensions.get('window').width, in the model's length unit.
SCREEN_WIDTH == 1

\* The value of a selectedDate prop that is null.
Null == -1

\* ------------------------------------------------------------------------
\* Dates
\* ------------------------------------------------------------------------

DaysInWeek == 7

\* Days of 2024 before the first of month m (1 = January).
DaysBeforeMonth2024(m) ==
    CASE m = 1 -> 0    [] m = 2 -> 31   [] m = 3 -> 60   [] m = 4 -> 91
      [] m = 5 -> 121  [] m = 6 -> 152  [] m = 7 -> 182  [] m = 8 -> 213
      [] m = 9 -> 244  [] m = 10 -> 274 [] m = 11 -> 305 [] m = 12 -> 335

\* new Date(2024, m - 1, d): local midnight of that calendar day.
Date2024(m, d) == (DaysBeforeMonth2024(m) + d) * TicksPerDay

\* The calendar day (days since the epoch Sunday) and weekday of a Date.
DayNumber(date) == date \div TicksPerDay

getDay(date) == DayNumber(date) % DaysInWeek

\* date.setDate(date.getDate() + n): the same time of day, n days on.
AddDays(date, n) == date + n * TicksPerDay

\* getWeekStart without the midnight normalization: the date moved back to
\* its Sunday, keeping its time of day.
getWeekStart_KeepsTime(date) == AddDays(date, 0 - getDay(date))

\* getWeekStart: midnight of the date's day, moved back to its Sunday.
getWeekStart(date) ==
    LET d == DayNumber(date) * TicksPerDay
    IN  AddDays(d, 0 - getDay(d))

\* isSameDay: same year, month and day of the month.
isSameDay(date1, date2) == DayNumber(date1) = DayNumber(date2)

\* The `today' prop, normalized to midnight by the today memo.
Today == Date2024(6, 4)

\* The dates the caller passes as selectedDate: a Sunday midnight, a Tuesday
\* noon of the same week, and a Thursday noon four weeks later.
SelectableDates ==
    { Date2024(6, 2), Date2024(6, 4) + 1, Date2024(7, 4) + 1 }

AnchorMin == AddDays(getWeekStart(Date2024(6, 2)), 0 - DaysInWeek * MaxWeeksAway)

AnchorMax == AddDays(getWeekStart(Date2024(7, 4)), DaysInWeek * MaxWeeksAway)

\* ------------------------------------------------------------------------
\* Widths and offsets
\* ------------------------------------------------------------------------

\* Widths a layout event may report: the screen's width and its double.
Widths == {SCREEN_WIDTH, 2 * SCREEN_WIDTH}

\* Scroll offsets the scroll surface may report: at the screen's width every
\* page and one page of overscroll on each side; at the double width the
\* pages and half pages from the left edge to just past the center.
Offsets == (0 - SCREEN_WIDTH) .. (SCREEN_WIDTH * TOTAL_WEEKS)

\* Math.round(x / w) for w # 0: the nearest integer, halves rounded up.
MathRound(x, w) == (2 * x + w) \div (2 * w)

\* x / w is a finite number (not Infinity, not NaN) exactly when w # 0.
IsFinite(x, w) == w # 0

\* ------------------------------------------------------------------------
\* State
\* ------------------------------------------------------------------------

VARIABLES
    anchorWeekStart,      \* useState: the week at the center of the buffer
    weeks,                \* useMemo: the materialized window, index 0..2K
    containerWidth,       \* useState: the measured width
    currentIndexRef,      \* useRef: the tracked visible page index
    hasInitialized,       \* useRef: the initial positioning jump has run
    needsRecenter,        \* useRef: a recenter jump is pending
    lastSelectedWeekRef,  \* useRef: getTime() of the last synced selected week
    selectedDate,         \* the selectedDate in force (prop, or today)
    timers,               \* pending setTimeout callbacks, in scheduling order
    mounted,              \* the component is mounted: scrollRef.current is set
    scrollX,              \* the scroll surface's content offset
    calls,                \* what the last step called: callbacks and scrollTo
    trip,                 \* observer: the progress of a one-page round trip
    burst,                \* observer: a burst of selection changes
    cal,                  \* the month Calendar: its props and displayed month
    button,               \* useButton: its props, state and animation
    gesture,              \* observer: a drag or momentum scroll is in progress
    quiet,                \* observer: the user and the caller have stopped
    swipes,               \* observer: a run of single-page swipes
    modal,                \* useModal: its props, ref, render and animation
    input                 \* useInput: its props and state

vars == << anchorWeekStart, weeks, containerWidth, currentIndexRef,
           hasInitialized, needsRecenter, lastSelectedWeekRef, selectedDate,
           timers, mounted, scrollX, calls, trip, burst, cal, button,
           gesture, quiet, swipes, modal, input >>

\* GenerateWeeks with the loop started one week late: the anchor lands at
\* index WEEKS_BUFFER - 1.
GenerateWeeks_LateStart(anchor) ==
    [ k \in 0 .. (2 * WEEKS_BUFFER) |->
        AddDays(anchor, (k - WEEKS_BUFFER + 1) * DaysInWeek) ]

\* The weeks memo: WEEKS_BUFFER weeks before the anchor, the anchor, and
\* WEEKS_BUFFER weeks after it; result[i + WEEKS_BUFFER] is anchor + 7i days.
GenerateWeeks(anchor) ==
    [ k \in 0 .. (2 * WEEKS_BUFFER) |->
        AddDays(anchor, (k - WEEKS_BUFFER) * DaysInWeek) ]

Call(op, arg) == [op |-> op, arg |-> arg]

Timer(kind, width) == [kind |-> kind, width |-> width]

\* The recenter effect, run after a render in which anchorWeekStart or
\* containerWidth changed: with needsRecenter set it defers a jump that
\* captures the rendered containerWidth.
RecenterEffect(pending, needs, width) ==
    IF needs THEN Append(pending, Timer("recenter", width)) ELSE pending

\* The observer's value while no round trip is under way.
NoTrip ==
    [ leg |-> 0, x0 |-> 0, from |-> 0, anchor |-> 0, week |-> 0,
      reached |-> FALSE, settled |-> FALSE, last |-> Null ]

\* The observer's value while no burst of selection changes is under way.
NoBurst == [ count |-> 0, last |-> Null, ran |-> FALSE ]

\* The value of cal while no month Calendar is rendered.
NoCalendar == [ month |-> 0 ]

\* The value of button while no button is rendered.
NoButton == [ isPressed |-> FALSE ]

\* The observers' values while they observe nothing: no gesture under way,
\* no run of swipes started.
NoGesture == "idle"

NoQuiet == "off"

NoSwipes == [ n |-> 0, dir |-> 0, start |-> Null, phase |-> "unobserved" ]

\* The value of modal while no Modal is rendered.
NoModal == [ visible |-> FALSE ]

\* The value of input while no Input is rendered.
NoInput == [ isFocused |-> FALSE ]

\* The variables of the components and observers a specification does not
\* use, and their values while unused.
unused == << gesture, quiet, swipes, modal, input >>

Unused ==
    /\ gesture = NoGesture
    /\ quiet = NoQuiet
    /\ swipes = NoSwipes
    /\ modal = NoModal
    /\ input = NoInput

\* The week pager after its first render.
PagerInit ==
    /\ selectedDate \in SelectableDates \cup {Null}
    /\ anchorWeekStart =
         getWeekStart(IF selectedDate # Null THEN selectedDate ELSE Today)
    /\ weeks = GenerateWeeks(anchorWeekStart)
    /\ containerWidth = SCREEN_WIDTH
    /\ currentIndexRef = CENTER_INDEX
    /\ hasInitialized = FALSE
    /\ needsRecenter = FALSE
    /\ lastSelectedWeekRef =
         getWeekStart(IF selectedDate # Null THEN selectedDate ELSE Today)
    /\ timers = << >>
    /\ mounted = TRUE
    /\ scrollX = SCREEN_WIDTH * CENTER_INDEX
    /\ calls = << >>

Init ==
    /\ PagerInit
    /\ trip = NoTrip
    /\ burst = NoBurst
    /\ cal = NoCalendar
    /\ button = NoButton
    /\ Unused

\* ------------------------------------------------------------------------
\* Operations
\* ------------------------------------------------------------------------

\* handleLayout: the host reports the container's width.
handleLayout(width) ==
    /\ mounted
    /\ IF width # containerWidth
       THEN /\ containerWidth' = width
            /\ timers' =
                 RecenterEffect(
                    IF ~hasInitialized
                    THEN Append(timers, Timer("init", width))
                    ELSE timers,
                    needsRecenter, width)
       ELSE UNCHANGED << containerWidth, timers >>
    /\ Len(timers') <= MaxTimers
    /\ calls' = << >>
    /\ UNCHANGED << anchorWeekStart, weeks, currentIndexRef, hasInitialized,
                    needsRecenter, lastSelectedWeekRef, selectedDate, mounted,
                    scrollX >>

\* handleScroll without the comparison with the stored index: every in-range
\* scroll frame reports its week.
handleScroll_EveryFrame(x) ==
    /\ mounted
    /\ scrollX' = x
    /\ IF /\ IsFinite(x, containerWidth)
          /\ MathRound(x, containerWidth) >= 0
          /\ MathRound(x, containerWidth) < TOTAL_WEEKS
       THEN /\ currentIndexRef' = MathRound(x, containerWidth)
            /\ calls' = << Call("onWeekChange", weeks[MathRound(x, containerWidth)]) >>
       ELSE /\ UNCHANGED currentIndexRef
            /\ calls' = << >>
    /\ UNCHANGED << anchorWeekStart, weeks, containerWidth, hasInitialized,
                    needsRecenter, lastSelectedWeekRef, selectedDate, timers,
                    mounted >>

\* handleScroll reporting the week of the page it leaves instead of the week
\* of the page it arrives at.
handleScroll_ReportsPrevious(x) ==
    /\ mounted
    /\ scrollX' = x
    /\ IF /\ IsFinite(x, containerWidth)
          /\ MathRound(x, containerWidth) # currentIndexRef
          /\ MathRound(x, containerWidth) >= 0
          /\ MathRound(x, containerWidth) < TOTAL_WEEKS
       THEN /\ currentIndexRef' = MathRound(x, containerWidth)
            /\ calls' = << Call("onWeekChange", weeks[currentIndexRef]) >>
       ELSE /\ UNCHANGED currentIndexRef
            /\ calls' = << >>
    /\ UNCHANGED << anchorWeekStart, weeks, containerWidth, hasInitialized,
                    needsRecenter, lastSelectedWeekRef, selectedDate, timers,
                    mounted >>

\* handleScroll with the range test applied to the callback only: an index
\* outside the window is stored.
handleScroll_Unclamped(x) ==
    /\ mounted
    /\ scrollX' = x
    /\ IF /\ IsFinite(x, containerWidth)
          /\ MathRound(x, containerWidth) # currentIndexRef
       THEN /\ currentIndexRef' = MathRound(x, containerWidth)
            /\ calls' = IF /\ MathRound(x, containerWidth) >= 0
                           /\ MathRound(x, containerWidth) < TOTAL_WEEKS
                        THEN << Call("onWeekChange", weeks[MathRound(x, containerWidth)]) >>
                        ELSE << >>
       ELSE /\ UNCHANGED currentIndexRef
            /\ calls' = << >>
    /\ UNCHANGED << anchorWeekStart, weeks, containerWidth, hasInitialized,
                    needsRecenter, lastSelectedWeekRef, selectedDate, timers,
                    mounted >>

\* handleScroll: the host reports scroll offset x while the strip moves.
handleScroll(x) ==
    /\ mounted
    /\ scrollX' = x
    /\ IF /\ IsFinite(x, containerWidth)
          /\ MathRound(x, containerWidth) # currentIndexRef
          /\ MathRound(x, containerWidth) >= 0
          /\ MathRound(x, containerWidth) < TOTAL_WEEKS
       THEN /\ currentIndexRef' = MathRound(x, containerWidth)
            /\ calls' = << Call("onWeekChange", weeks[MathRound(x, containerWidth)]) >>
       ELSE /\ UNCHANGED currentIndexRef
            /\ calls' = << >>
    /\ UNCHANGED << anchorWeekStart, weeks, containerWidth, hasInitialized,
                    needsRecenter, lastSelectedWeekRef, selectedDate, timers,
                    mounted >>

\* handleScrollEnd with the edge test narrowed to the outermost slot on each
\* side (index <= 0 or index >= TOTAL_WEEKS - 1).
handleScrollEnd_OutermostOnly(x) ==
    /\ mounted
    /\ scrollX' = x
    /\ IF /\ IsFinite(x, containerWidth)
          /\ \/ MathRound(x, containerWidth) <= 0
             \/ MathRound(x, containerWidth) >= TOTAL_WEEKS - 1
          /\ MathRound(x, containerWidth) \in DOMAIN weeks
       THEN /\ needsRecenter' = TRUE
            /\ currentIndexRef' = CENTER_INDEX
            /\ anchorWeekStart' = weeks[MathRound(x, containerWidth)]
            /\ weeks' = GenerateWeeks(anchorWeekStart')
            /\ timers' = RecenterEffect(timers, needsRecenter', containerWidth)
       ELSE UNCHANGED << needsRecenter, currentIndexRef, anchorWeekStart,
                         weeks, timers >>
    /\ anchorWeekStart' \in AnchorMin .. AnchorMax
    /\ Len(timers') <= MaxTimers
    /\ calls' = << >>
    /\ UNCHANGED << containerWidth, hasInitialized, lastSelectedWeekRef,
                    selectedDate, mounted >>

\* handleScrollEnd without the recenter: the window is never re-anchored.
handleScrollEnd_NeverRecenters(x) ==
    /\ mounted
    /\ scrollX' = x
    /\ calls' = << >>
    /\ UNCHANGED << anchorWeekStart, weeks, containerWidth, currentIndexRef,
                    hasInitialized, needsRecenter, lastSelectedWeekRef,
                    selectedDate, timers, mounted >>

\* handleScrollEnd that recenters without resetting the tracked index.
handleScrollEnd_KeepsIndex(x) ==
    /\ mounted
    /\ scrollX' = x
    /\ IF /\ IsFinite(x, containerWidth)
          /\ \/ MathRound(x, containerWidth) <= 1
             \/ MathRound(x, containerWidth) >= TOTAL_WEEKS - 2
          /\ MathRound(x, containerWidth) \in DOMAIN weeks
       THEN /\ needsRecenter' = TRUE
            /\ anchorWeekStart' = weeks[MathRound(x, containerWidth)]
            /\ weeks' = GenerateWeeks(anchorWeekStart')
            /\ timers' = RecenterEffect(timers, needsRecenter', containerWidth)
       ELSE UNCHANGED << needsRecenter, anchorWeekStart, weeks, timers >>
    /\ anchorWeekStart' \in AnchorMin .. AnchorMax
    /\ Len(timers') <= MaxTimers
    /\ calls' = << >>
    /\ UNCHANGED << containerWidth, currentIndexRef, hasInitialized,
                    lastSelectedWeekRef, selectedDate, mounted >>

\* handleScrollEnd without the edge test: every settle on a materialized
\* page makes that page's week the anchor and defers a jump.
handleScrollEnd_AlwaysRecenters(x) ==
    /\ mounted
    /\ scrollX' = x
    /\ IF /\ IsFinite(x, containerWidth)
          /\ MathRound(x, containerWidth) \in DOMAIN weeks
       THEN /\ needsRecenter' = TRUE
            /\ currentIndexRef' = CENTER_INDEX
            /\ anchorWeekStart' = weeks[MathRound(x, containerWidth)]
            /\ weeks' = GenerateWeeks(anchorWeekStart')
            /\ timers' = RecenterEffect(timers, needsRecenter', containerWidth)
       ELSE UNCHANGED << needsRecenter, currentIndexRef, anchorWeekStart,
                         weeks, timers >>
    /\ anchorWeekStart' \in AnchorMin .. AnchorMax
    /\ Len(timers') <= MaxTimers
    /\ calls' = << >>
    /\ UNCHANGED << containerWidth, hasInitialized, lastSelectedWeekRef,
                    selectedDate, mounted >>

\* handleScrollEnd (onMomentumScrollEnd): the scroll has settled at offset x.
\* Near an edge of the buffer the settled week becomes the anchor; the
\* re-render regenerates weeks and the recenter effect defers the jump.
handleScrollEnd(x) ==
    /\ mounted
    /\ scrollX' = x
    /\ IF /\ IsFinite(x, containerWidth)
          /\ \/ MathRound(x, containerWidth) <= 1
             \/ MathRound(x, containerWidth) >= TOTAL_WEEKS - 2
          /\ MathRound(x, containerWidth) \in DOMAIN weeks
       THEN /\ needsRecenter' = TRUE
            /\ currentIndexRef' = CENTER_INDEX
            /\ anchorWeekStart' = weeks[MathRound(x, containerWidth)]
            /\ weeks' = GenerateWeeks(anchorWeekStart')
            /\ timers' = RecenterEffect(timers, needsRecenter', containerWidth)
       ELSE UNCHANGED << needsRecenter, currentIndexRef, anchorWeekStart,
                         weeks, timers >>
    /\ anchorWeekStart' \in AnchorMin .. AnchorMax
    /\ Len(timers') <= MaxTimers
    /\ calls' = << >>
    /\ UNCHANGED << containerWidth, hasInitialized, lastSelectedWeekRef,
                    selectedDate, mounted >>

\* selectionEffect comparing the date's own time, not its week's, with the
\* last synced week.
selectionEffect_DateKey(date) ==
    /\ mounted
    /\ selectedDate' = date
    /\ IF date # Null /\ date # lastSelectedWeekRef
       THEN /\ lastSelectedWeekRef' = getWeekStart(date)
            /\ needsRecenter' = TRUE
            /\ currentIndexRef' = CENTER_INDEX
            /\ anchorWeekStart' = getWeekStart(date)
            /\ weeks' = GenerateWeeks(anchorWeekStart')
            /\ timers' = RecenterEffect(timers, needsRecenter', containerWidth)
       ELSE UNCHANGED << lastSelectedWeekRef, needsRecenter, currentIndexRef,
                         anchorWeekStart, weeks, timers >>
    /\ Len(timers') <= MaxTimers
    /\ calls' = << >>
    /\ UNCHANGED << containerWidth, hasInitialized, mounted, scrollX >>

\* selectionEffect comparing the selected week with the anchor week, not with
\* the last synced selected week.
selectionEffect_AnchorKey(date) ==
    /\ mounted
    /\ selectedDate' = date
    /\ IF date # Null /\ getWeekStart(date) # anchorWeekStart
       THEN /\ lastSelectedWeekRef' = getWeekStart(date)
            /\ needsRecenter' = TRUE
            /\ currentIndexRef' = CENTER_INDEX
            /\ anchorWeekStart' = getWeekStart(date)
            /\ weeks' = GenerateWeeks(anchorWeekStart')
            /\ timers' = RecenterEffect(timers, needsRecenter', containerWidth)
       ELSE UNCHANGED << lastSelectedWeekRef, needsRecenter, currentIndexRef,
                         anchorWeekStart, weeks, timers >>
    /\ Len(timers') <= MaxTimers
    /\ calls' = << >>
    /\ UNCHANGED << containerWidth, hasInitialized, mounted, scrollX >>

\* selectionEffect without the reset of the tracked index.
selectionEffect_KeepsIndex(date) ==
    /\ mounted
    /\ selectedDate' = date
    /\ IF date # Null /\ getWeekStart(date) # lastSelectedWeekRef
       THEN /\ lastSelectedWeekRef' = getWeekStart(date)
            /\ needsRecenter' = TRUE
            /\ anchorWeekStart' = getWeekStart(date)
            /\ weeks' = GenerateWeeks(anchorWeekStart')
            /\ timers' = RecenterEffect(timers, needsRecenter', containerWidth)
       ELSE UNCHANGED << lastSelectedWeekRef, needsRecenter,
                         anchorWeekStart, weeks, timers >>
    /\ Len(timers') <= MaxTimers
    /\ calls' = << >>
    /\ UNCHANGED << containerWidth, hasInitialized, mounted, scrollX,
                    currentIndexRef >>

\* The selection-sync effect, run when the caller renders the component with
\* a selectedDate that is a new value or a new Date object.
selectionEffect(date) ==
    /\ mounted
    /\ selectedDate' = date
    /\ IF date # Null /\ getWeekStart(date) # lastSelectedWeekRef
       THEN /\ lastSelectedWeekRef' = getWeekStart(date)
            /\ needsRecenter' = TRUE
            /\ currentIndexRef' = CENTER_INDEX
            /\ anchorWeekStart' = getWeekStart(date)
            /\ weeks' = GenerateWeeks(anchorWeekStart')
            /\ timers' = RecenterEffect(timers, needsRecenter', containerWidth)
       ELSE UNCHANGED << lastSelectedWeekRef, needsRecenter, currentIndexRef,
                         anchorWeekStart, weeks, timers >>
    /\ Len(timers') <= MaxTimers
    /\ calls' = << >>
    /\ UNCHANGED << containerWidth, hasInitialized, mounted, scrollX >>

\* A pending timer may run when every timer scheduled before it has a longer
\* delay: a recenter timer (0 ms) waits only for earlier recenter timers, an
\* initial-positioning timer (100 ms) for every earlier timer.
MayRun(i) ==
    /\ i \in 1 .. Len(timers)
    /\ \A j \in 1 .. (i - 1) :
          timers[i].kind = "recenter" /\ timers[j].kind = "init"

Remove(s, i) == [ j \in 1 .. (Len(s) - 1) |-> IF j < i THEN s[j] ELSE s[j + 1] ]

\* recenterTimeout that also reports the center week after its jump.
recenterTimeout_NotifiesWeek(i) ==
    /\ MayRun(i)
    /\ timers[i].kind = "recenter"
    /\ scrollX' = IF mounted THEN timers[i].width * CENTER_INDEX ELSE scrollX
    /\ calls' = IF mounted
                THEN << Call("scrollTo", scrollX'),
                        Call("onWeekChange", weeks[CENTER_INDEX]) >>
                ELSE << >>
    /\ needsRecenter' = FALSE
    /\ timers' = Remove(timers, i)
    /\ UNCHANGED << anchorWeekStart, weeks, containerWidth, currentIndexRef,
                    hasInitialized, lastSelectedWeekRef, selectedDate,
                    mounted >>

\* recenterTimeout that jumps but leaves needsRecenter set.
recenterTimeout_KeepsFlag(i) ==
    /\ MayRun(i)
    /\ timers[i].kind = "recenter"
    /\ scrollX' = IF mounted THEN timers[i].width * CENTER_INDEX ELSE scrollX
    /\ calls' = IF mounted THEN << Call("scrollTo", scrollX') >> ELSE << >>
    /\ timers' = Remove(timers, i)
    /\ UNCHANGED << anchorWeekStart, weeks, containerWidth, currentIndexRef,
                    hasInitialized, lastSelectedWeekRef, selectedDate,
                    mounted, needsRecenter >>

\* recenterTimeout calling scrollTo without testing scrollRef.current: on the
\* disposed surface the call fails.
recenterTimeout_Unguarded(i) ==
    /\ MayRun(i)
    /\ timers[i].kind = "recenter"
    /\ scrollX' = IF mounted THEN timers[i].width * CENTER_INDEX ELSE scrollX
    /\ calls' = IF mounted
                THEN << Call("scrollTo", scrollX') >>
                ELSE << Call("TypeError", timers[i].width * CENTER_INDEX) >>
    /\ needsRecenter' = FALSE
    /\ timers' = Remove(timers, i)
    /\ UNCHANGED << anchorWeekStart, weeks, containerWidth, currentIndexRef,
                    hasInitialized, lastSelectedWeekRef, selectedDate,
                    mounted >>

\* The callback deferred by the recenter effect: jump to the center page of
\* the width captured when it was scheduled, then clear needsRecenter.
recenterTimeout(i) ==
    /\ MayRun(i)
    /\ timers[i].kind = "recenter"
    /\ scrollX' = IF mounted THEN timers[i].width * CENTER_INDEX ELSE scrollX
    /\ calls' = IF mounted THEN << Call("scrollTo", scrollX') >> ELSE << >>
    /\ needsRecenter' = FALSE
    /\ timers' = Remove(timers, i)
    /\ UNCHANGED << anchorWeekStart, weeks, containerWidth, currentIndexRef,
                    hasInitialized, lastSelectedWeekRef, selectedDate,
                    mounted >>

\* The callback deferred by handleLayout: the initial positioning jump.
layoutTimeout(i) ==
    /\ MayRun(i)
    /\ timers[i].kind = "init"
    /\ scrollX' = IF mounted THEN timers[i].width * CENTER_INDEX ELSE scrollX
    /\ calls' = IF mounted THEN << Call("scrollTo", scrollX') >> ELSE << >>
    /\ hasInitialized' = TRUE
    /\ timers' = Remove(timers, i)
    /\ UNCHANGED << anchorWeekStart, weeks, containerWidth, currentIndexRef,
                    needsRecenter, lastSelectedWeekRef, selectedDate,
                    mounted >>

\* getWeekDates: the seven dates of the row of week weekStart.
getWeekDates(weekStart) == [ i \in 0 .. (DaysInWeek - 1) |-> AddDays(weekStart, i) ]

\* The day cells a press may land on: the last column (the Saturday) of the
\* page the scroll surface shows.
PressableCells ==
    IF /\ IsFinite(scrollX, containerWidth)
       /\ MathRound(scrollX, containerWidth) \in DOMAIN weeks
    THEN { getWeekDates(weeks[MathRound(scrollX, containerWidth)])[DaysInWeek - 1] }
    ELSE {}

\* handlePress without the disabled test: every press is reported.
handlePress_IgnoresDisabled(date, disabled) ==
    /\ mounted
    /\ calls' = << Call("onSelectDate", date) >>
    /\ UNCHANGED << anchorWeekStart, weeks, containerWidth, currentIndexRef,
                    hasInitialized, needsRecenter, lastSelectedWeekRef,
                    selectedDate, timers, mounted, scrollX >>

\* handlePress that also stores the pressed date as the selected date, as an
\* uncontrolled component would.
handlePress_SelectsDate(date, disabled) ==
    /\ mounted
    /\ calls' = IF ~disabled THEN << Call("onSelectDate", date) >> ELSE << >>
    /\ selectedDate' = IF ~disabled THEN date ELSE selectedDate
    /\ UNCHANGED << anchorWeekStart, weeks, containerWidth, currentIndexRef,
                    hasInitialized, needsRecenter, lastSelectedWeekRef,
                    timers, mounted, scrollX >>

\* DayColumn.handlePress and handleSelectDate: a press on the cell of `date',
\* rendered with the disabled prop as given.
handlePress(date, disabled) ==
    /\ mounted
    /\ calls' = IF ~disabled THEN << Call("onSelectDate", date) >> ELSE << >>
    /\ UNCHANGED << anchorWeekStart, weeks, containerWidth, currentIndexRef,
                    hasInitialized, needsRecenter, lastSelectedWeekRef,
                    selectedDate, timers, mounted, scrollX >>

\* The component is torn down: the scroll surface is disposed (scrollRef.current
\* becomes null) and no handler or effect runs any more; pending timers stay.
unmount ==
    /\ mounted
    /\ mounted' = FALSE
    /\ calls' = << >>
    /\ UNCHANGED << anchorWeekStart, weeks, containerWidth, currentIndexRef,
                    hasInitialized, needsRecenter, lastSelectedWeekRef,
                    selectedDate, timers, scrollX >>

\* A step of the pager alone: the observers and the other components stay.
PagerOnly == UNCHANGED << trip, burst, cal, button, unused >>

\* One step of the pager.
Next ==
    \/ \E width \in Widths : handleLayout(width) /\ PagerOnly
    \/ \E x \in Offsets : handleScroll(x) /\ PagerOnly
    \/ \E x \in Offsets : x = scrollX /\ handleScrollEnd(x) /\ PagerOnly
    \/ \E date \in SelectableDates \cup {Null} : selectionEffect(date) /\ PagerOnly
    \/ \E i \in 1 .. MaxTimers : recenterTimeout(i) /\ PagerOnly
    \/ \E i \in 1 .. MaxTimers : layoutTimeout(i) /\ PagerOnly
    \/ \E date \in PressableCells, disabled \in BOOLEAN :
          handlePress(date, disabled) /\ PagerOnly
    \/ unmount /\ PagerOnly

Spec == Init /\ [][Next]_vars

\* ------------------------------------------------------------------------
\* The pager observed for one-page round trips
\* ------------------------------------------------------------------------

\* The week the last step reported through onWeekChange, or the one before.
Reported(before) == IF calls' # << >> THEN calls'[1].arg ELSE before

\* The observer after a scroll-progress event.  A trip starts when the strip
\* leaves an offset x0 whose page is the tracked index, moving forward by at
\* most one page; it goes on while the offset stays within that page's
\* distance of x0, and is complete when the offset is back at x0 after having
\* reached x0 + containerWidth.
TripAfterScroll ==
    IF /\ trip.leg = 1
       /\ scrollX' = trip.x0
       /\ trip.reached
    THEN [ trip EXCEPT !.leg = 2, !.last = Reported(trip.last) ]
    ELSE IF /\ trip.leg = 1
            /\ scrollX' > trip.x0
            /\ scrollX' <= trip.x0 + containerWidth
    THEN [ trip EXCEPT !.reached = @ \/ scrollX' = trip.x0 + containerWidth,
                       !.last = Reported(trip.last) ]
    ELSE IF /\ IsFinite(scrollX, containerWidth)
            /\ MathRound(scrollX, containerWidth) = currentIndexRef
            /\ scrollX' > scrollX
            /\ scrollX' <= scrollX + containerWidth
    THEN [ leg |-> 1, x0 |-> scrollX, from |-> currentIndexRef,
           anchor |-> anchorWeekStart, week |-> weeks[currentIndexRef],
           reached |-> (scrollX' = scrollX + containerWidth),
           settled |-> FALSE, last |-> Reported(Null) ]
    ELSE NoTrip

\* The observer after a settle: a settle that recenters ends the trip, one
\* that does not is part of it.
TripAfterSettle ==
    IF trip.leg = 1 /\ anchorWeekStart' = anchorWeekStart /\ timers' = timers
    THEN [ trip EXCEPT !.settled = @ \/ trip.reached ]
    ELSE NoTrip

\* One step of the observed pager: any other event ends the trip.
TripOnly == UNCHANGED << burst, cal, button, unused >>

TripNext ==
    \/ \E x \in Offsets : handleScroll(x) /\ trip' = TripAfterScroll /\ TripOnly
    \/ \E x \in Offsets :
          x = scrollX /\ handleScrollEnd(x) /\ trip' = TripAfterSettle /\ TripOnly
    \/ \E width \in Widths : handleLayout(width) /\ trip' = NoTrip /\ TripOnly
    \/ \E date \in SelectableDates \cup {Null} :
          selectionEffect(date) /\ trip' = NoTrip /\ TripOnly
    \/ \E i \in 1 .. MaxTimers : recenterTimeout(i) /\ trip' = NoTrip /\ TripOnly
    \/ \E i \in 1 .. MaxTimers : layoutTimeout(i) /\ trip' = NoTrip /\ TripOnly

SpecTrip == Init /\ [][TripNext]_vars

\* ------------------------------------------------------------------------
\* The month Calendar
\* ------------------------------------------------------------------------

\* The pager's own state, which the other components leave alone.
pagerState == << anchorWeekStart, weeks, containerWidth, currentIndexRef,
                hasInitialized, needsRecenter, lastSelectedWeekRef,
                selectedDate, timers, mounted, scrollX >>

\* The displayed month stays within MaxMonthsAway months of today's month.
MaxMonthsAway == 2

TodayMonth == 6

\* getDaysInMonth(2024, m - 1).
getDaysInMonth(m) ==
    IF m = 12 THEN 31 ELSE DaysBeforeMonth2024(m + 1) - DaysBeforeMonth2024(m)

\* getFirstDayOfMonth(2024, m - 1): the weekday of the 1st.
getFirstDayOfMonth(m) == getDay(Date2024(m, 1))

\* date.getMonth() + 1 for a date of 2024.
getMonth(date) ==
    CHOOSE m \in 1 .. 12 :
        /\ DayNumber(date) > DaysBeforeMonth2024(m)
        /\ DayNumber(date) <= DaysBeforeMonth2024(m) + getDaysInMonth(m)

\* The calendarGrid memo, as the set of its cells' dates: the tail of the
\* previous month that fills the first row, the displayed month, and the
\* head of the next month that fills the last row.
calendarGrid(m) ==
    LET firstDay  == getFirstDayOfMonth(m)
        inMonth   == getDaysInMonth(m)
        inPrev    == getDaysInMonth(m - 1)
        lastRow   == ((firstDay + inMonth - 1) % DaysInWeek) + 1
    IN  { Date2024(m - 1, inPrev - i) : i \in 0 .. (firstDay - 1) }
        \cup { Date2024(m, day) : day \in 1 .. inMonth }
        \cup { Date2024(m + 1, n) : n \in 1 .. (DaysInWeek - lastRow) }

\* The minDate and maxDate props the Calendar may be rendered with.
MinDates == { Null, Date2024(6, 10) }

MaxDates == { Null, Date2024(6, 20) }

\* The Calendar after its first render: displayDate is today.
InitCalendar ==
    /\ PagerInit
    /\ selectedDate = Null
    /\ trip = NoTrip
    /\ burst = NoBurst
    /\ button = NoButton
    /\ Unused
    /\ cal \in [ month : {TodayMonth}, minDate : MinDates, maxDate : MaxDates ]

\* goToPreviousMonth, from a press on the left caret.
goToPreviousMonth(disabled) ==
    /\ cal.month - 1 >= TodayMonth - MaxMonthsAway
    /\ IF ~disabled
       THEN /\ cal' = [ cal EXCEPT !.month = @ - 1 ]
            /\ calls' = << Call("onMonthChange", Date2024(cal.month - 1, 1)) >>
       ELSE /\ UNCHANGED cal
            /\ calls' = << >>

\* goToNextMonth, from a press on the right caret.
goToNextMonth(disabled) ==
    /\ cal.month + 1 <= TodayMonth + MaxMonthsAway
    /\ IF ~disabled
       THEN /\ cal' = [ cal EXCEPT !.month = @ + 1 ]
            /\ calls' = << Call("onMonthChange", Date2024(cal.month + 1, 1)) >>
       ELSE /\ UNCHANGED cal
            /\ calls' = << >>

\* DateCell.handlePress and handleSelectDate: a press on the cell of `date'.
DateCell_handlePress(date, disabled) ==
    /\ calls' = IF ~disabled /\ getMonth(date) = cal.month
                THEN << Call("onSelectDate", date) >>
                ELSE << >>
    /\ UNCHANGED cal

CalendarOnly == UNCHANGED << pagerState, trip, burst, button, unused >>

CalendarNext ==
    \/ \E disabled \in BOOLEAN : goToPreviousMonth(disabled) /\ CalendarOnly
    \/ \E disabled \in BOOLEAN : goToNextMonth(disabled) /\ CalendarOnly
    \/ \E date \in calendarGrid(cal.month), disabled \in BOOLEAN :
          DateCell_handlePress(date, disabled) /\ CalendarOnly

SpecCalendar == InitCalendar /\ [][CalendarNext]_vars

\* ------------------------------------------------------------------------
\* useButton
\* ------------------------------------------------------------------------

\* The scale values, in hundredths: at rest and pressed.
RestScale == 100

PressedScale == 99

\* No spring animation is running on scaleValue.
NoSpring == 0

\* The press events (GestureResponderEvent) a press may carry.
PressEvents == { 1, 2 }

\* disabled || loading.
isInteractionDisabled(b) == b.disabled \/ b.loading

\* useButton after its first render, for every choice of props: the reset
\* effect has run and found nothing to reset.  resetPressed observes the
\* reset effect: it has cleared the pressed state of a pressed button.
InitButton ==
    /\ PagerInit
    /\ selectedDate = Null
    /\ trip = NoTrip
    /\ burst = NoBurst
    /\ cal = NoCalendar
    /\ Unused
    /\ button \in [ disabled : BOOLEAN, loading : BOOLEAN,
                     scaleAnimation : BOOLEAN, hasOnPress : BOOLEAN,
                     isPressed : {FALSE}, scale : {RestScale},
                     spring : {NoSpring}, resetPressed : {FALSE} ]

\* handlePressIn.
handlePressIn ==
    /\ button' =
         IF ~button.disabled /\ ~button.loading
         THEN [ button EXCEPT
                  !.isPressed = TRUE,
                  !.spring = IF button.scaleAnimation THEN PressedScale ELSE @ ]
         ELSE button
    /\ calls' = << >>

\* handlePressOut.
handlePressOut ==
    /\ button' =
         [ button EXCEPT
             !.isPressed = FALSE,
             !.spring = IF button.scaleAnimation THEN RestScale ELSE @ ]
    /\ calls' = << >>

\* useButton's handlePress with the loading test left out.
useButton_handlePress_IgnoresLoading(event) ==
    /\ calls' = IF ~button.disabled /\ button.hasOnPress
                THEN << Call("onPress", event) >>
                ELSE << >>
    /\ UNCHANGED button

\* useButton's handlePress.
useButton_handlePress(event) ==
    /\ calls' = IF ~button.disabled /\ ~button.loading /\ button.hasOnPress
                THEN << Call("onPress", event) >>
                ELSE << >>
    /\ UNCHANGED button

\* A render of the button with new props, without the reset effect.
setButtonProps_NoReset(disabled, loading, scaleAnimation, hasOnPress) ==
    LET rendered == [ button EXCEPT !.disabled = disabled,
                                    !.loading = loading,
                                    !.scaleAnimation = scaleAnimation,
                                    !.hasOnPress = hasOnPress ]
    IN  /\ rendered # button
        /\ button' = rendered
        /\ calls' = << >>

\* The parent renders the button with new props; the reset effect runs when
\* isInteractionDisabled has changed, and when it is now true it sets the
\* scale to 1 (which stops a running spring) and clears isPressed.
setButtonProps(disabled, loading, scaleAnimation, hasOnPress) ==
    LET rendered == [ button EXCEPT !.disabled = disabled,
                                    !.loading = loading,
                                    !.scaleAnimation = scaleAnimation,
                                    !.hasOnPress = hasOnPress ]
    IN  /\ rendered # button
        /\ button' =
             IF /\ isInteractionDisabled(rendered) # isInteractionDisabled(button)
                /\ isInteractionDisabled(rendered)
             THEN [ rendered EXCEPT !.scale = RestScale,
                                    !.spring = NoSpring,
                                    !.isPressed = FALSE,
                                    !.resetPressed = @ \/ button.isPressed ]
             ELSE rendered
        /\ calls' = << >>

\* The running spring animation reaches its target value.
springEnd ==
    /\ button.spring # NoSpring
    /\ button' = [ button EXCEPT !.scale = button.spring, !.spring = NoSpring ]
    /\ calls' = << >>

ButtonOnly == UNCHANGED << pagerState, trip, burst, cal, unused >>

ButtonNext ==
    \/ handlePressIn /\ ButtonOnly
    \/ handlePressOut /\ ButtonOnly
    \/ \E event \in PressEvents : useButton_handlePress(event) /\ ButtonOnly
    \/ \E disabled \in BOOLEAN, loading \in BOOLEAN,
          scaleAnimation \in BOOLEAN, hasOnPress \in BOOLEAN :
          setButtonProps(disabled, loading, scaleAnimation, hasOnPress) /\ ButtonOnly
    \/ springEnd /\ ButtonOnly

SpecButton == InitButton /\ [][ButtonNext]_vars

\* ------------------------------------------------------------------------
\* The pager with its timers run by the event loop
\* ------------------------------------------------------------------------

\* The offsets of the pages a gesture is followed to here: the slot next to
\* each edge and the center.
PageStops == { k * containerWidth : k \in { 1, CENTER_INDEX, 2 * WEEKS_BUFFER - 1 } }

LiveNext ==
    \/ \E width \in Widths : handleLayout(width) /\ PagerOnly
    \/ \E x \in PageStops : handleScroll(x) /\ PagerOnly
    \/ \E x \in Offsets : x = scrollX /\ handleScrollEnd(x) /\ PagerOnly
    \/ \E date \in SelectableDates \cup {Null} : selectionEffect(date) /\ PagerOnly
    \/ \E i \in 1 .. MaxTimers : recenterTimeout(i) /\ PagerOnly
    \/ \E i \in 1 .. MaxTimers : layoutTimeout(i) /\ PagerOnly
    \/ unmount /\ PagerOnly

\* The event loop runs every timer whose delay has passed: a pending timeout
\* callback is not postponed forever.
SpecLive ==
    /\ Init
    /\ [][LiveNext]_vars
    /\ WF_vars(\E i \in 1 .. MaxTimers : recenterTimeout(i) /\ PagerOnly)
    /\ WF_vars(\E i \in 1 .. MaxTimers : layoutTimeout(i) /\ PagerOnly)

\* ------------------------------------------------------------------------
\* The pager observed for bursts of selection changes
\* ------------------------------------------------------------------------

\* The observer after a run of the selection-sync effect.  A burst starts
\* with a selection change that recenters while no deferred callback is
\* pending; every further recentering change before any of the burst's jumps
\* has run is counted (up to two) and its week remembered.  A selection
\* change that does not recenter leaves the burst as it is.
BurstAfterSelection ==
    IF lastSelectedWeekRef' = lastSelectedWeekRef
    THEN burst
    ELSE IF burst.count >= 1 /\ ~burst.ran
    THEN [ count |-> 2, last |-> lastSelectedWeekRef', ran |-> FALSE ]
    ELSE IF timers = << >>
    THEN [ count |-> 1, last |-> lastSelectedWeekRef', ran |-> FALSE ]
    ELSE NoBurst

\* The observer after a deferred callback has run.
BurstAfterTimeout ==
    IF burst.count >= 1 THEN [ burst EXCEPT !.ran = TRUE ] ELSE burst

BurstOnly == UNCHANGED << trip, cal, button, unused >>

\* One step of the observed pager: a layout or scroll event ends the burst.
BurstNext ==
    \/ \E date \in SelectableDates \cup {Null} :
          selectionEffect(date) /\ burst' = BurstAfterSelection /\ BurstOnly
    \/ \E i \in 1 .. MaxTimers :
          recenterTimeout(i) /\ burst' = BurstAfterTimeout /\ BurstOnly
    \/ \E i \in 1 .. MaxTimers :
          layoutTimeout(i) /\ burst' = BurstAfterTimeout /\ BurstOnly
    \/ \E width \in Widths : handleLayout(width) /\ burst' = NoBurst /\ BurstOnly
    \/ \E x \in Offsets : handleScroll(x) /\ burst' = NoBurst /\ BurstOnly
    \/ \E x \in Offsets :
          x = scrollX /\ handleScrollEnd(x) /\ burst' = NoBurst /\ BurstOnly

SpecBurst == Init /\ [][BurstNext]_vars

\* ------------------------------------------------------------------------
\* Properties
\* ------------------------------------------------------------------------

\* The structure of the materialized window: 2K+1 entries, adjacent entries
\* exactly 7 days apart, the anchor at the center index K.
WindowShape ==
    /\ DOMAIN weeks = 0 .. (2 * WEEKS_BUFFER)
    /\ \A i \in 0 .. (2 * WEEKS_BUFFER - 1) :
          weeks[i + 1] - weeks[i] = DaysInWeek * TicksPerDay
    /\ weeks[WEEKS_BUFFER] = anchorWeekStart

\* C1 (as amended): in every reachable state the window has 2K+1 entries,
\* adjacent entries differ by exactly 7 days and weeks[K] is the anchor; for
\* the anchor 2024-06-02, weeks[0] is 2024-04-28 and weeks[10] is 2024-07-07.
C1_WeeksWindow ==
    /\ WindowShape
    /\ anchorWeekStart = Date2024(6, 2) =>
          /\ weeks[0] = Date2024(4, 28)
          /\ weeks[10] = Date2024(7, 7)

\* C1 witness: a recenter has re-anchored the window on 2024-06-02.
C1_Witness ==
    /\ anchorWeekStart = Date2024(6, 2)
    /\ needsRecenter
    /\ weeks[0] = Date2024(4, 28)

\* C1 as stated: the same structure, with the stated example that for the
\* anchor 2024-06-02, weeks[0] is 2024-04-21 and weeks[10] is 2024-08-11.
C1_AsStated ==
    /\ WindowShape
    /\ anchorWeekStart = Date2024(6, 2) =>
          /\ weeks[0] = Date2024(4, 21)
          /\ weeks[10] = Date2024(8, 11)

\* The page index a scroll event at offset x resolves to.
IndexOf(x) == MathRound(x, containerWidth)

\* C2: a settle at an in-range index recenters exactly when the index is in
\* the outer two slots (index <= 1 or index >= 2K - 1): then the anchor becomes
\* weeks[index], the tracked index K and a recenter is pending; a settle at
\* an index in 2 .. 2K-2 leaves the anchor and the pending flag as they were.
C2_SettleRecentersAtEdges ==
    [][ ( /\ IsFinite(scrollX, containerWidth)
          /\ IndexOf(scrollX) \in 0 .. (2 * WEEKS_BUFFER)
          /\ handleScrollEnd(scrollX) )
        => IF IndexOf(scrollX) <= 1 \/ IndexOf(scrollX) >= 2 * WEEKS_BUFFER - 1
           THEN /\ anchorWeekStart' = weeks[IndexOf(scrollX)]
                /\ currentIndexRef' = WEEKS_BUFFER
                /\ needsRecenter' = TRUE
           ELSE /\ anchorWeekStart' = anchorWeekStart
                /\ needsRecenter' = needsRecenter ]_vars

\* C2 witness: the scroll settled at index 1 of a window anchored on the
\* selected week (2024-06-30) and the anchor moved to the week that was at
\* index 1, with the tracked index reset and the recenter pending.
C2_Witness ==
    /\ IsFinite(scrollX, containerWidth)
    /\ IndexOf(scrollX) = 1
    /\ lastSelectedWeekRef = Date2024(6, 30)
    /\ anchorWeekStart = AddDays(Date2024(6, 30), 0 - 4 * DaysInWeek)
    /\ currentIndexRef = WEEKS_BUFFER
    /\ needsRecenter
    /\ Len(timers) = 1

\* C4: delivering again the selectedDate already in force (the same calendar
\* day, as a new Date object) changes neither the anchor, the tracked index,
\* the last synced week key nor the pending flag, and schedules no jump.
C4_SelectionIdempotent ==
    [][ \A date \in SelectableDates :
          ( /\ selectedDate # Null
            /\ isSameDay(date, selectedDate)
            /\ selectionEffect(date) )
          => UNCHANGED << anchorWeekStart, weeks, currentIndexRef,
                          lastSelectedWeekRef, needsRecenter, timers >> ]_vars

\* C4 witness: a selection change has recentered the pager once (one jump is
\* pending) and the same selectedDate can be delivered again.
C4_Witness ==
    /\ selectedDate = Date2024(7, 4) + 1
    /\ lastSelectedWeekRef = Date2024(6, 30)
    /\ anchorWeekStart = Date2024(6, 30)
    /\ needsRecenter
    /\ timers = << Timer("recenter", containerWidth) >>
    /\ ENABLED selectionEffect(selectedDate)

\* C5: a selectedDate change recenters if and only if its week start differs
\* from the last synced key: then the key is updated, the tracked index is
\* forced to K, the anchor becomes the week start and a jump is scheduled;
\* for a date of the same week nothing changes and no jump is scheduled.
\* (2024-07-04 selected in the week of 2024-06-02 re-anchors on 2024-06-30.)
C5_SelectionRecentersIffWeekDiffers ==
    [][ \A date \in SelectableDates :
          selectionEffect(date)
          => IF getWeekStart(date) # lastSelectedWeekRef
             THEN /\ lastSelectedWeekRef' = getWeekStart(date)
                  /\ currentIndexRef' = WEEKS_BUFFER
                  /\ anchorWeekStart' = getWeekStart(date)
                  /\ weeks' = GenerateWeeks(getWeekStart(date))
                  /\ needsRecenter' = TRUE
                  /\ timers' = Append(timers, Timer("recenter", containerWidth))
                  /\ ( /\ isSameDay(date, Date2024(7, 4))
                       /\ lastSelectedWeekRef = Date2024(6, 2) )
                     => anchorWeekStart' = Date2024(6, 30)
             ELSE UNCHANGED << anchorWeekStart, weeks, containerWidth,
                               currentIndexRef, hasInitialized, needsRecenter,
                               lastSelectedWeekRef, timers, scrollX >> ]_vars

\* C5 witness: 2024-07-04 was selected while the synced week was another one,
\* after the user had swiped away from the center: the pager is re-anchored
\* on 2024-06-30 with the tracked index forced back to K.
C5_Witness ==
    /\ selectedDate = Date2024(7, 4) + 1
    /\ lastSelectedWeekRef = Date2024(6, 30)
    /\ anchorWeekStart = Date2024(6, 30)
    /\ currentIndexRef = WEEKS_BUFFER
    /\ IsFinite(scrollX, containerWidth)
    /\ IndexOf(scrollX) = 3
    /\ needsRecenter

\* A step in which a recenter is triggered: a settle near an edge or a
\* selection change to another week re-anchors the window and defers a jump.
RecenterStep ==
    /\ Len(timers') > Len(timers)
    /\ \/ handleScrollEnd(scrollX)
       \/ \E date \in SelectableDates : selectionEffect(date)

\* A step in which the deferred jump of a recenter runs on the mounted pager.
RecenterJumpStep == mounted /\ \E i \in 1 .. MaxTimers : recenterTimeout(i)

\* A step in which the initial positioning jump runs on the mounted pager.
InitialJumpStep == mounted /\ \E i \in 1 .. MaxTimers : layoutTimeout(i)

\* C3 as stated: right after a recenter is triggered, weeks[K] is the anchor
\* and the tracked index is K, and both still hold right after the recenter's
\* deferred jump has run.
C3_AsStated ==
    [][ (RecenterStep \/ RecenterJumpStep)
        => /\ weeks'[WEEKS_BUFFER] = anchorWeekStart'
           /\ currentIndexRef' = WEEKS_BUFFER ]_vars

\* Offset x is nearest to page n of width w (a half page rounds up).
NearestPage(x, w, n) == (2 * n - 1) * w <= 2 * x /\ 2 * x < (2 * n + 1) * w

\* C7: a scroll-progress event calls onWeekChange(weeks[index]) exactly when
\* index = round(offsetX / containerWidth) is in 0 .. 2K and differs from the
\* stored index, and then stores that index; an event that resolves to the
\* stored index (or out of range) calls nothing and changes no state.
C7_WeekChangeOnIndexChange ==
    [][ ( containerWidth # 0 /\ handleScroll(scrollX') )
        => /\ NearestPage(scrollX', containerWidth, IndexOf(scrollX'))
           /\ IF /\ IndexOf(scrollX') \in 0 .. (2 * WEEKS_BUFFER)
                 /\ IndexOf(scrollX') # currentIndexRef
              THEN /\ calls' = << Call("onWeekChange", weeks[IndexOf(scrollX')]) >>
                   /\ currentIndexRef' = IndexOf(scrollX')
              ELSE /\ calls' = << >>
                   /\ UNCHANGED << anchorWeekStart, weeks, containerWidth,
                                   currentIndexRef, hasInitialized,
                                   needsRecenter, lastSelectedWeekRef,
                                   selectedDate, timers, mounted >> ]_vars

\* C7 witness: at the double width the scroll reached offset 3 (page 1.5,
\* which rounds to 2) and onWeekChange was called once, with weeks[2].
C7_Witness ==
    /\ containerWidth = 2 * SCREEN_WIDTH
    /\ scrollX = 3 * SCREEN_WIDTH
    /\ currentIndexRef = 2
    /\ calls = << Call("onWeekChange", weeks[2]) >>

\* A Date that is a Sunday at local midnight.
IsSundayMidnight(date) == date % TicksPerDay = 0 /\ getDay(date) = 0

\* C8: the anchor is a Sunday at local midnight in every reachable state, and
\* so is every entry of weeks and every date passed to onWeekChange.
C8_AnchorIsSundayMidnight ==
    /\ IsSundayMidnight(anchorWeekStart)
    /\ \A i \in DOMAIN weeks : IsSundayMidnight(weeks[i])
    /\ \A i \in 1 .. Len(calls) :
          calls[i].op = "onWeekChange" => IsSundayMidnight(calls[i].arg)

\* C8 witness: the selected date carries a time of day, the anchor was moved
\* away from the selected week by an edge recenter, and a swipe has reported
\* a week.
C8_Witness ==
    /\ selectedDate # Null
    /\ selectedDate % TicksPerDay # 0
    /\ anchorWeekStart # getWeekStart(selectedDate)
    /\ Len(calls) = 1
    /\ calls[1].op = "onWeekChange"

\* The last step called onWeekChange.
WeekChangeCalled == \E i \in 1 .. Len(calls) : calls[i].op = "onWeekChange"

InitTimers(pending) == { j \in 1 .. Len(pending) : pending[j].kind = "init" }

\* C10 as stated: the initial positioning jump is issued exactly once: a
\* layout event schedules it only if none was scheduled or issued before, and
\* it never runs after it has already run.
C10_AsStated ==
    [][ /\ InitialJumpStep => ~hasInitialized
        /\ \A width \in Widths :
              ( handleLayout(width)
                /\ Cardinality(InitTimers(timers')) > Cardinality(InitTimers(timers)) )
              => /\ InitTimers(timers) = {}
                 /\ ~hasInitialized ]_vars

\* C6: a swipe forward by one page and back by one page, from an index i
\* with neither i nor i + 1 an edge-recenter slot, leaves the tracked index at
\* i and the anchor unchanged, and the last week reported through
\* onWeekChange is the original week weeks[i].
C6_RoundTrip ==
    ( /\ trip.leg = 2
      /\ trip.from >= 2
      /\ trip.from + 1 <= 2 * WEEKS_BUFFER - 2 )
    => /\ currentIndexRef = trip.from
       /\ anchorWeekStart = trip.anchor
       /\ trip.last = trip.week
       /\ weeks[currentIndexRef] = trip.week

\* C6 witness: a round trip from index 3 at the double width, begun at an
\* offset that is not page-aligned and settled on the forward page, is
\* complete.
C6_Witness ==
    /\ trip.leg = 2
    /\ trip.from = 3
    /\ trip.settled
    /\ containerWidth = 2 * SCREEN_WIDTH
    /\ trip.x0 = 5 * SCREEN_WIDTH
    /\ calls = << Call("onWeekChange", trip.week) >>

\* The last step called onSelectDate.
SelectDateCalled == \E i \in 1 .. Len(calls) : calls[i].op = "onSelectDate"

\* C11: a press on a day cell calls onSelectDate with exactly that cell's
\* date if and only if the pager is not disabled: an enabled press calls it
\* once with the date, a disabled press calls nothing, and no other step of
\* the pager calls onSelectDate.
C11_PressReportsIffEnabled ==
    [][ /\ \A date \in PressableCells :
              /\ handlePress(date, FALSE)
                    => calls' = << Call("onSelectDate", date) >>
              /\ handlePress(date, TRUE) => calls' = << >>
        /\ SelectDateCalled'
              => \E date \in PressableCells : handlePress(date, FALSE) ]_vars

\* C11 witness: while a recenter is pending, an enabled press on the Saturday
\* of a week other than the anchor week has been reported.
C11_Witness ==
    /\ needsRecenter
    /\ timers # << >>
    /\ \E k \in DOMAIN weeks :
          /\ k # CENTER_INDEX
          /\ calls = << Call("onSelectDate", AddDays(weeks[k], DaysInWeek - 1)) >>

\* C12: a day-cell press does not move the pager: it leaves the anchor, the
\* window, the tracked index, the last synced week, the pending-recenter
\* flag, the timers and the scroll offset unchanged; and selectedDate changes
\* only when the caller supplies it.
C12_PressLeavesPager ==
    [][ /\ ( \E date \in PressableCells, disabled \in BOOLEAN :
                 handlePress(date, disabled) )
              => UNCHANGED << anchorWeekStart, weeks, currentIndexRef,
                              lastSelectedWeekRef, needsRecenter, timers,
                              scrollX, selectedDate, containerWidth >>
        /\ selectedDate' # selectedDate
              => \E date \in SelectableDates \cup {Null} : selectionEffect(date) ]_vars

\* C12 witness: an enabled press on a date outside the selected date's week
\* has been reported, and the pager is still anchored on the selected week
\* with no jump pending.
C12_Witness ==
    /\ SelectDateCalled
    /\ selectedDate # Null
    /\ getWeekStart(calls[1].arg) # getWeekStart(selectedDate)
    /\ anchorWeekStart = getWeekStart(selectedDate)
    /\ timers = << >>
    /\ ~needsRecenter

\* C13 as stated: in the month Calendar no press reports a date earlier than
\* minDate or later than maxDate through onSelectDate.
C13_AsStated ==
    SelectDateCalled
    => /\ cal.minDate # Null => calls[1].arg >= cal.minDate
       /\ cal.maxDate # Null => calls[1].arg <= cal.maxDate

\* The last step called the button's onPress.
OnPressCalled == \E i \in 1 .. Len(calls) : calls[i].op = "onPress"

\* C14: useButton never calls onPress while disabled or loading is true, and
\* calls it exactly once, with the press event, for every press event that
\* arrives while neither is true (and an onPress is given); pressIn, pressOut
\* and prop changes call nothing.
C14_PressBlockedWhileDisabledOrLoading ==
    [][ /\ \A event \in PressEvents :
              useButton_handlePress(event)
              => calls' = IF button.disabled \/ button.loading \/ ~button.hasOnPress
                          THEN << >>
                          ELSE << Call("onPress", event) >>
        /\ OnPressCalled'
              => /\ ~button.disabled
                 /\ ~button.loading
                 /\ \E event \in PressEvents : useButton_handlePress(event) ]_vars

\* C14 witness: after pressIn and the end of its spring, a press with event 2
\* on the enabled button has been passed to onPress.
C14_Witness ==
    /\ calls = << Call("onPress", 2) >>
    /\ button.isPressed
    /\ button.scale = PressedScale
    /\ ~button.disabled
    /\ ~button.loading

\* The last step issued an imperative jump to the center page of some width.
JumpIssued ==
    \E width \in Widths : calls = << Call("scrollTo", width * CENTER_INDEX) >>

ScrollToCalled == \E i \in 1 .. Len(calls) : calls[i].op = "scrollTo"

\* C16 as stated: no step that changes the anchor issues the jump, and every
\* deferred jump of a recenter lands on containerWidth * K for the width in
\* force when it runs.
C16_AsStated ==
    [][ /\ anchorWeekStart' # anchorWeekStart => ~ScrollToCalled'
        /\ RecenterJumpStep
              => /\ scrollX' = containerWidth * CENTER_INDEX
                 /\ calls' = << Call("scrollTo", containerWidth * CENTER_INDEX) >> ]_vars

\* C17: once the component is torn down, a deferred callback that runs issues
\* no imperative scroll command and raises no error: no step from an
\* unmounted state calls anything.
C17_NoJumpAfterUnmount == ~mounted => calls = << >>

\* C17 witness: the component was torn down with the initial jump and a
\* recenter jump to the double width pending; both callbacks have run, and
\* the scroll surface is still where it was.
C17_Witness ==
    /\ ~mounted
    /\ timers = << >>
    /\ hasInitialized
    /\ ~needsRecenter
    /\ containerWidth = 2 * SCREEN_WIDTH
    /\ scrollX = SCREEN_WIDTH * CENTER_INDEX
    /\ currentIndexRef = CENTER_INDEX
    /\ anchorWeekStart = getWeekStart(Date2024(7, 4))

\* C19 as stated: when a settle on an edge slot recenters, the week at the
\* viewport's page of the regenerated window is still the week settled on.
C19_AsStated ==
    [][ ( /\ Len(timers') > Len(timers)
          /\ IsFinite(scrollX, containerWidth)
          /\ IndexOf(scrollX) \in DOMAIN weeks
          /\ handleScrollEnd(scrollX) )
        => weeks'[IndexOf(scrollX')] = weeks[IndexOf(scrollX)] ]_vars

\* C20: an offset whose rounded page index is outside 0 .. 2K is ignored:
\* the scroll-progress or settle step calls nothing, stores no index and
\* starts no recenter; and the tracked index is within 0 .. 2K in every
\* reachable state.
C20_OutOfRangeIgnored ==
    /\ [] ( currentIndexRef \in 0 .. (2 * WEEKS_BUFFER) )
    /\ [][ ( /\ containerWidth # 0
              /\ IndexOf(scrollX') \notin 0 .. (2 * WEEKS_BUFFER)
              /\ ( handleScroll(scrollX') \/ handleScrollEnd(scrollX) ) )
            => /\ calls' = << >>
               /\ UNCHANGED << currentIndexRef, anchorWeekStart, weeks,
                               needsRecenter, timers >> ]_vars

\* C20 witness: from the last page, the strip has been dragged one page
\* width past the end of the window; the tracked index is still the last
\* page and nothing was called.
C20_Witness ==
    /\ containerWidth = SCREEN_WIDTH
    /\ scrollX = SCREEN_WIDTH * TOTAL_WEEKS
    /\ currentIndexRef = 2 * WEEKS_BUFFER
    /\ calls = << >>
    /\ ~needsRecenter

ZeroWidths == {0, SCREEN_WIDTH}

\* The offsets the host reports there: the first page, the centre and the
\* late edge of a measured strip (all of them are offset 0 of an empty one).
ZeroStops == {0, SCREEN_WIDTH * CENTER_INDEX, SCREEN_WIDTH * (TOTAL_WEEKS - 2)}

ZeroNext ==
    \/ \E width \in ZeroWidths : handleLayout(width) /\ PagerOnly
    \/ \E x \in ZeroStops : handleScroll(x) /\ PagerOnly
    \/ \E x \in ZeroStops : x = scrollX /\ handleScrollEnd(x) /\ PagerOnly
    \/ \E date \in SelectableDates \cup {Null} : selectionEffect(date) /\ PagerOnly
    \/ \E i \in 1 .. MaxTimers : recenterTimeout(i) /\ PagerOnly
    \/ \E i \in 1 .. MaxTimers : layoutTimeout(i) /\ PagerOnly

SpecZero == Init /\ [][ZeroNext]_vars

\* C21 as stated: while the container width is zero, a scroll-progress or
\* settle event changes no state and calls nothing, and no step recenters
\* (moves the anchor, raises needsRecenter, defers a jump) or issues an
\* imperative scroll command.
C21_AsStated ==
    [][ (containerWidth = 0 /\ containerWidth' = 0)
           => /\ ~ScrollToCalled'
              /\ anchorWeekStart' = anchorWeekStart
              /\ needsRecenter => needsRecenter'
              /\ ~needsRecenter => ~needsRecenter'
              /\ Len(timers') <= Len(timers)
              /\ (handleScroll(scrollX') \/ handleScrollEnd(scrollX))
                    => /\ calls' = << >>
                       /\ UNCHANGED << anchorWeekStart, weeks, currentIndexRef,
                                       needsRecenter, timers >> ]_vars

\* ------------------------------------------------------------------------
\* The pager observed for gestures
\* ------------------------------------------------------------------------

\* The observer: a scroll event puts a gesture (drag, then momentum) under
\* way, and the momentum-end event of the scroll surface ends it.  Renders,
\* effects, timers and presses neither start nor end a gesture.
\* The offsets a gesture reports: the page stops, and the page after the
\* centre.
GestureStops == PageStops \cup { (CENTER_INDEX + 1) * containerWidth }

GestureOnly == UNCHANGED << trip, burst, cal, button, quiet, swipes, modal, input >>

GestureNext ==
    \/ \E width \in Widths :
          handleLayout(width) /\ UNCHANGED gesture /\ GestureOnly
    \/ \E x \in GestureStops :
          handleScroll(x) /\ gesture' = "scrolling" /\ GestureOnly
    \/ /\ gesture = "scrolling"
       /\ handleScrollEnd(scrollX)
       /\ gesture' = NoGesture
       /\ GestureOnly
    \/ \E date \in SelectableDates \cup {Null} :
          selectionEffect(date) /\ UNCHANGED gesture /\ GestureOnly
    \/ \E i \in 1 .. MaxTimers :
          recenterTimeout(i) /\ UNCHANGED gesture /\ GestureOnly
    \/ \E i \in 1 .. MaxTimers :
          layoutTimeout(i) /\ UNCHANGED gesture /\ GestureOnly
    \/ \E date \in PressableCells, disabled \in BOOLEAN :
          handlePress(date, disabled) /\ UNCHANGED gesture /\ GestureOnly

SpecGesture == Init /\ [][GestureNext]_vars

\* C22 as stated: a layout measurement, a scroll-progress event and a press
\* on a day cell leave anchorWeekStart unchanged, and no step taken while a
\* gesture is under way, other than the one that settles it, changes
\* anchorWeekStart.
C22_AsStated ==
    [][ /\ ( \/ \E width \in Widths : handleLayout(width)
             \/ handleScroll(scrollX')
             \/ \E date \in PressableCells, disabled \in BOOLEAN :
                   handlePress(date, disabled) )
           => anchorWeekStart' = anchorWeekStart
        /\ (gesture = "scrolling" /\ gesture' = "scrolling")
           => anchorWeekStart' = anchorWeekStart ]_vars

\* A step that ends a gesture: the momentum-end event of a scroll in progress.
SettleStep == gesture = "scrolling" /\ gesture' = NoGesture

ShowsWeek(week) ==
    /\ IsFinite(scrollX, containerWidth)
    /\ IndexOf(scrollX) \in DOMAIN weeks
    /\ scrollX = IndexOf(scrollX) * containerWidth
    /\ weeks[IndexOf(scrollX)] = week

\* C24 as stated: when the caller changes selectedDate while the pager is at
\* rest on a page with nothing pending, then either the viewport already
\* shows the week of the new date, or a recenter onto that week is pending
\* (its deferred jump will show it).
C24_AsStated ==
    [][ \A date \in SelectableDates :
          ( /\ gesture = NoGesture
            /\ timers = << >>
            /\ \E week \in AnchorMin .. AnchorMax : ShowsWeek(week)
            /\ selectedDate # date
            /\ selectionEffect(date) )
          => \/ needsRecenter' /\ anchorWeekStart' = getWeekStart(date)
             \/ ShowsWeek(getWeekStart(date))' ]_vars

\* ------------------------------------------------------------------------
\* The pager observed after a recenter, with the user and the caller quiet
\* ------------------------------------------------------------------------

\* The observer follows one recenter from its trigger.  It is "waiting" once
\* a settle or a selection change has raised needsRecenter with no other
\* deferred callback pending, "jumped" once that recenter's deferred jump
\* has run, and "off" after any other event.
QuietAfterEvent ==
    IF timers = << >> /\ ~needsRecenter /\ needsRecenter'
    THEN "waiting"
    ELSE NoQuiet

QuietOnly == UNCHANGED << trip, burst, cal, button, gesture, swipes, modal, input >>

\* After the jump the host may report the scroll position the jump produced,
\* as scroll events and as a momentum-end event at the offset it left the
\* surface at; these are the only events of a quiet user and caller.
QuietNext ==
    \/ \E width \in Widths :
          handleLayout(width) /\ quiet' = QuietAfterEvent /\ QuietOnly
    \/ \E x \in PageStops :
          handleScroll(x) /\ quiet' = QuietAfterEvent /\ QuietOnly
    \/ handleScrollEnd(scrollX) /\ quiet' = QuietAfterEvent /\ QuietOnly
    \/ \E date \in SelectableDates \cup {Null} :
          selectionEffect(date) /\ quiet' = QuietAfterEvent /\ QuietOnly
    \/ \E i \in 1 .. MaxTimers :
          /\ recenterTimeout(i)
          /\ quiet' = IF quiet = "waiting" THEN "jumped" ELSE NoQuiet
          /\ QuietOnly
    \/ \E i \in 1 .. MaxTimers :
          layoutTimeout(i) /\ quiet' = NoQuiet /\ QuietOnly
    \/ quiet = "jumped" /\ handleScroll(scrollX) /\ UNCHANGED quiet /\ QuietOnly
    \/ quiet = "jumped" /\ handleScrollEnd(scrollX) /\ UNCHANGED quiet /\ QuietOnly

\* The event loop runs the zero-delay callback of a recenter.
SpecQuiet ==
    /\ Init
    /\ [][QuietNext]_vars
    /\ WF_vars(\E i \in 1 .. MaxTimers :
                  /\ recenterTimeout(i)
                  /\ quiet' = IF quiet = "waiting" THEN "jumped" ELSE NoQuiet
                  /\ QuietOnly)

\* C25: a recenter does not feed back into itself.  The deferred jump of a
\* recenter reports no week change, leaves the anchor alone, clears the
\* pending flag, leaves no callback pending and puts the scroll surface on
\* containerWidth * K; the scroll and momentum-end events the host then
\* reports for that position call nothing and change nothing; and a recenter
\* that is waiting for its jump does not wait forever.
C25_NoRecenterLoop ==
    /\ [][ /\ (quiet = "waiting" /\ quiet' = "jumped")
              => /\ ~WeekChangeCalled'
                 /\ anchorWeekStart' = anchorWeekStart
                 /\ ~needsRecenter'
                 /\ timers' = << >>
                 /\ scrollX' = containerWidth * CENTER_INDEX
           /\ (quiet = "jumped" /\ quiet' = "jumped")
              => /\ calls' = << >>
                 /\ UNCHANGED << anchorWeekStart, weeks, containerWidth,
                                 currentIndexRef, hasInitialized, needsRecenter,
                                 lastSelectedWeekRef, selectedDate, timers,
                                 mounted, scrollX >> ]_vars
    /\ (quiet = "waiting") ~> (quiet # "waiting")

\* C25 witness: a settle on the late edge page recentred the window, the
\* jump ran, and the host has reported the position it produced (the last
\* step called nothing): the pager is on page K with nothing pending.
C25_Witness ==
    /\ quiet = "jumped"
    /\ calls = << >>
    /\ selectedDate = Null
    /\ anchorWeekStart = AddDays(getWeekStart(Today), 4 * DaysInWeek)
    /\ scrollX = containerWidth * CENTER_INDEX
    /\ currentIndexRef = CENTER_INDEX
    /\ timers = << >>
    /\ ~needsRecenter

\* ------------------------------------------------------------------------
\* The pager observed over a run of single-page swipes in one direction
\* ------------------------------------------------------------------------

\* How many swipes a run may count.
MaxSwipes == 8

\* The pager rests on a page: the scroll surface is exactly on a materialized
\* page and no deferred callback is pending.
AtRest ==
    /\ timers = << >>
    /\ IsFinite(scrollX, containerWidth)
    /\ IndexOf(scrollX) \in DOMAIN weeks
    /\ scrollX = IndexOf(scrollX) * containerWidth

SwipeOnly == UNCHANGED << trip, burst, cal, button, gesture, quiet, modal, input >>

\* The pager is idle: at rest on one of the inner pages, the page the
\* tracked index names, with no recenter pending.
Idle ==
    /\ AtRest
    /\ ~needsRecenter
    /\ currentIndexRef = IndexOf(scrollX)
    /\ IndexOf(scrollX) \in 2 .. (2 * WEEKS_BUFFER - 2)

\* Before the run: layout measurements, the initial jump, selection changes
\* with their jumps, and earlier gestures bring the pager to its starting
\* page.
\* A swipe: from rest (idle, for the first one), the scroll surface moves
\* one page in the run's direction, within the content (the first swipe
\* chooses the direction and records the week it leaves).
\* The swipe settles (momentum end) and counts; a recenter it triggers is
\* finished by its deferred jump before the next swipe starts.
SwipeNext ==
    \/ /\ swipes = NoSwipes
       /\ \E width \in Widths : handleLayout(width)
       /\ UNCHANGED swipes
       /\ SwipeOnly
    \/ /\ swipes = NoSwipes
       /\ \E i \in 1 .. MaxTimers : layoutTimeout(i)
       /\ UNCHANGED swipes
       /\ SwipeOnly
    \/ /\ swipes = NoSwipes
       /\ \E date \in SelectableDates : selectionEffect(date)
       /\ UNCHANGED swipes
       /\ SwipeOnly
    \/ /\ swipes = NoSwipes
       /\ \E i \in 1 .. MaxTimers : recenterTimeout(i)
       /\ UNCHANGED swipes
       /\ SwipeOnly
    \/ /\ swipes = NoSwipes
       /\ \E x \in GestureStops : handleScroll(x)
       /\ UNCHANGED swipes
       /\ SwipeOnly
    \/ /\ swipes = NoSwipes
       /\ handleScrollEnd(scrollX)
       /\ UNCHANGED swipes
       /\ SwipeOnly
    \/ /\ swipes.phase \in { NoSwipes.phase, "rest" }
       /\ swipes.n < MaxSwipes
       /\ AtRest
       /\ swipes.n = 0 => Idle
       /\ \E dir \in { -1, 1 } :
             /\ swipes.n > 0 => dir = swipes.dir
             /\ scrollX + dir * containerWidth
                   \in 0 .. ((TOTAL_WEEKS - 1) * containerWidth)
             /\ handleScroll(scrollX + dir * containerWidth)
             /\ swipes' = [ n     |-> swipes.n,
                            dir   |-> dir,
                            start |-> IF swipes.n = 0
                                      THEN weeks[IndexOf(scrollX)]
                                      ELSE swipes.start,
                            phase |-> "moving" ]
       /\ SwipeOnly
    \/ /\ swipes.phase = "moving"
       /\ handleScrollEnd(scrollX)
       /\ swipes' = [ swipes EXCEPT !.n = @ + 1,
                                    !.phase = IF needsRecenter'
                                              THEN "recentering"
                                              ELSE "rest" ]
       /\ SwipeOnly
    \/ /\ swipes.phase = "recentering"
       /\ \E i \in 1 .. MaxTimers : recenterTimeout(i)
       /\ swipes' = [ swipes EXCEPT !.phase = "rest" ]
       /\ SwipeOnly

SpecSwipe == Init /\ [][SwipeNext]_vars

\* C26: after n single-page swipes in one direction, each settled and its
\* recenter (if any) finished, the viewport shows the week 7 * n days from
\* the week the run started on (later for forward swipes, earlier for
\* backward ones), the tracked index is the page shown, and that page is
\* one of 1 .. 2K-1: a materialized page remains on each side.
C26_SwipesAdvanceByWeeks ==
    swipes.phase = "rest"
       => /\ AtRest
          /\ weeks[IndexOf(scrollX)] =
                AddDays(swipes.start, DaysInWeek * swipes.n * swipes.dir)
          /\ currentIndexRef = IndexOf(scrollX)
          /\ IndexOf(scrollX) \in 1 .. (2 * WEEKS_BUFFER - 1)

\* C26 witness: five forward swipes from the week of 2024-06-02; the fourth
\* reached the late edge and recentred the window on 2024-06-30, and the
\* fifth rests on the page after the centre, the week of 2024-07-07.
C26_Witness ==
    /\ swipes.phase = "rest"
    /\ swipes.n = 5
    /\ swipes.dir = 1
    /\ swipes.start = Date2024(6, 2)
    /\ anchorWeekStart = Date2024(6, 30)
    /\ scrollX = (CENTER_INDEX + 1) * containerWidth
    /\ weeks[IndexOf(scrollX)] = Date2024(7, 7)

\* ------------------------------------------------------------------------
\* useModal
\* ------------------------------------------------------------------------

\* The height of the window: translateY of a hidden modal; 0 is fully shown.
SCREEN_HEIGHT == 3

\* The animationDuration prop of an instance, in ms.
Durations == { 150, 300 }

\* No animation is running on translateY and overlayOpacity.
NoAnimation == "none"

\* The value an animation drives translateY to: 0 animating in,
\* SCREEN_HEIGHT animating out.
AnimationTarget(anim) == IF anim = "in" THEN 0 ELSE SCREEN_HEIGHT

\* useModal after its first render and effect, for every choice of props:
\* shouldRenderRef starts as visible, and the effect has started the
\* animation of the visible prop.  closing observes a close under way: a
\* render turned visible from true to false and the close animation it
\* started has not completed.
InitModal ==
    /\ PagerInit
    /\ selectedDate = Null
    /\ trip = NoTrip
    /\ burst = NoBurst
    /\ cal = NoCalendar
    /\ button = NoButton
    /\ gesture = NoGesture
    /\ quiet = NoQuiet
    /\ swipes = NoSwipes
    /\ input = NoInput
    /\ \E visible \in BOOLEAN, hasOnClose \in BOOLEAN, duration \in Durations :
          modal = [ visible           |-> visible,
                    hasOnClose        |-> hasOnClose,
                    animationDuration |-> duration,
                    shouldRenderRef   |-> visible,
                    shouldRender      |-> visible,
                    anim              |-> IF visible THEN "in" ELSE "out",
                    translateY        |-> SCREEN_HEIGHT,
                    closing           |-> FALSE ]

\* useModal: a render with the given props, then its effect.  The render
\* raises shouldRenderRef when visible and returns
\* visible || shouldRenderRef.current.  The effect runs when visible changed:
\* it starts the animation for visible on the two animated values, which
\* stops the animation still running on them; a stopped close animation
\* invokes its start callback (with finished: false), and the callback
\* clears shouldRenderRef whatever its argument.
useModal(visible, hasOnClose) ==
    LET ref       == visible \/ modal.shouldRenderRef
        effectRan == visible # modal.visible
    IN  /\ modal' =
             [ modal EXCEPT
                 !.visible         = visible,
                 !.hasOnClose      = hasOnClose,
                 !.shouldRender    = visible \/ ref,
                 !.shouldRenderRef = IF effectRan /\ modal.anim = "out"
                                     THEN FALSE
                                     ELSE ref,
                 !.anim            = IF effectRan
                                     THEN (IF visible THEN "in" ELSE "out")
                                     ELSE @,
                 !.closing         = IF effectRan THEN ~visible ELSE @ ]
        /\ calls' = << >>

\* A frame of the running animation: translateY moves towards the target.
animationFrame ==
    /\ modal.anim # NoAnimation
    /\ modal.translateY # AnimationTarget(modal.anim)
    /\ modal' = [ modal EXCEPT
                    !.translateY = IF modal.anim = "in" THEN @ - 1 ELSE @ + 1 ]
    /\ calls' = << >>

\* The running animation ends at its target; the close animation's start
\* callback clears shouldRenderRef.  Nothing is rendered.
animationEnd ==
    /\ modal.anim # NoAnimation
    /\ modal.translateY = AnimationTarget(modal.anim)
    /\ modal' = [ modal EXCEPT
                    !.anim            = NoAnimation,
                    !.shouldRenderRef = IF modal.anim = "out" THEN FALSE ELSE @,
                    !.closing         = FALSE ]
    /\ calls' = << >>

\* handleOverlayPress, for a press on the overlay of a rendered modal.
handleOverlayPress ==
    /\ modal.visible \/ modal.shouldRender
    /\ calls' = IF modal.hasOnClose THEN << Call("onClose", Null) >> ELSE << >>
    /\ UNCHANGED modal

ModalOnly ==
    UNCHANGED << pagerState, trip, burst, cal, button, gesture, quiet, swipes,
                 input >>

ModalNext ==
    \/ \E visible \in BOOLEAN, hasOnClose \in BOOLEAN :
          useModal(visible, hasOnClose) /\ ModalOnly
    \/ animationFrame /\ ModalOnly
    \/ animationEnd /\ ModalOnly
    \/ handleOverlayPress /\ ModalOnly

SpecModal == InitModal /\ [][ModalNext]_vars

\* C27 as stated: from the render in which visible turns false until the
\* close animation started by it has completed, shouldRender is true.
C27_AsStated == modal.closing => modal.shouldRender

\* C28 as stated: when the close animation completes with visible still
\* false, the shouldRender the component observes becomes false.
C28_AsStated ==
    [][ (modal.closing /\ ~modal'.closing /\ ~modal'.visible)
           => ~modal'.shouldRender ]_vars

\* C29: the pressed state never survives interaction being disabled.  A
\* pressIn while disabled or loading changes nothing, and after every step
\* (a render's effects included) a button that is disabled or loading is
\* not pressed and its scale is 1.
C29_PressedNeverSurvivesDisabling ==
    [][ /\ (isInteractionDisabled(button) /\ handlePressIn)
           => button' = button
        /\ isInteractionDisabled(button')
           => /\ ~button'.isPressed
              /\ button'.scale = RestScale ]_vars

\* C29 witness: a pressed button was rendered loading; the reset effect
\* has cleared its pressed state and put its scale back to 1.
C29_Witness ==
    /\ button.resetPressed
    /\ button.loading
    /\ ~button.disabled
    /\ ~button.isPressed
    /\ button.scale = RestScale
    /\ button.spring = NoSpring

\* ------------------------------------------------------------------------
\* useInput
\* ------------------------------------------------------------------------

\* The texts an input may hold or receive.
Texts == { "", "a", "ab" }

\* The value prop of an uncontrolled input (value === undefined).
Undefined == "(undefined)"

\* The focus and blur events (NativeSyntheticEvent) the host may deliver.
FocusEvents == { 1 }

\* useInput after its first render, for every choice of props:
\* uncontrolledValue starts as defaultValue and isFocused as false.
\* hasCallbacks: onChangeText, onFocus and onBlur are given.
InitInput ==
    /\ PagerInit
    /\ selectedDate = Null
    /\ trip = NoTrip
    /\ burst = NoBurst
    /\ cal = NoCalendar
    /\ button = NoButton
    /\ gesture = NoGesture
    /\ quiet = NoQuiet
    /\ swipes = NoSwipes
    /\ modal = NoModal
    /\ input \in [ disabled : BOOLEAN,
                    controlledValue : Texts \cup { Undefined },
                    hasCallbacks : BOOLEAN,
                    uncontrolledValue : Texts,
                    isFocused : { FALSE } ]

\* handleChangeText.
handleChangeText(text) ==
    IF ~input.disabled
    THEN /\ input' = [ input EXCEPT
                         !.uncontrolledValue =
                             IF input.controlledValue = Undefined THEN text ELSE @ ]
         /\ calls' = IF input.hasCallbacks
                     THEN << Call("onChangeText", text) >>
                     ELSE << >>
    ELSE /\ UNCHANGED input
         /\ calls' = << >>

\* handleFocus.
handleFocus(event) ==
    IF ~input.disabled
    THEN /\ input' = [ input EXCEPT !.isFocused = TRUE ]
         /\ calls' = IF input.hasCallbacks
                     THEN << Call("onFocus", event) >>
                     ELSE << >>
    ELSE /\ UNCHANGED input
         /\ calls' = << >>

\* handleBlur.
handleBlur(event) ==
    /\ input' = [ input EXCEPT !.isFocused = FALSE ]
    /\ calls' = IF input.hasCallbacks
                THEN << Call("onBlur", event) >>
                ELSE << >>

\* The parent renders the input with new props.  useInput has no effect:
\* the render keeps uncontrolledValue and isFocused.
useInput(disabled, controlledValue, hasCallbacks) ==
    /\ input' = [ input EXCEPT !.disabled = disabled,
                               !.controlledValue = controlledValue,
                               !.hasCallbacks = hasCallbacks ]
    /\ input' # input
    /\ calls' = << >>

InputOnly ==
    UNCHANGED << pagerState, trip, burst, cal, button, gesture, quiet, swipes,
                 modal >>

InputNext ==
    \/ \E text \in Texts : handleChangeText(text) /\ InputOnly
    \/ \E event \in FocusEvents : handleFocus(event) /\ InputOnly
    \/ \E event \in FocusEvents : handleBlur(event) /\ InputOnly
    \/ \E disabled \in BOOLEAN, controlledValue \in Texts \cup { Undefined },
          hasCallbacks \in BOOLEAN :
          useInput(disabled, controlledValue, hasCallbacks) /\ InputOnly

SpecInput == InitInput /\ [][InputNext]_vars

\* C30 as stated: while disabled, handleChangeText changes no value and
\* calls nothing, handleFocus neither sets isFocused nor calls anything, and
\* after every step a disabled input is not focused.
C30_AsStated ==
    [][ /\ ( /\ input.disabled
             /\ \/ \E text \in Texts : handleChangeText(text)
                \/ \E event \in FocusEvents : handleFocus(event) )
           => /\ input' = input
              /\ calls' = << >>
        /\ input'.disabled => ~input'.isFocused ]_vars

=============================================================================
